---- MODULE Spec2Model ----
(***************************************************************************)
(* The dubbing-pipeline API (src/python/app.py and src/python/services):   *)
(* the module-level model globals of the five services, the lifespan       *)
(* startup sequence that fills them, and the request handlers that read    *)
(* (and, for /translate and /tts, lazily load) them, run by one asyncio    *)
(* event loop.                                                             *)
(***************************************************************************)
EXTENDS Integers, Sequences, FiniteSets, TLC

(* ------------------------------ bounds -------------------------------- *)

\* Number of requests the server has in flight at once.
MaxReq == 2

\* Number of tokenizers the library is asked to build in one run: once it
\* is reached, a further from_pretrained of the tokenizer fails.
MaxTokenizers == 2

\* Number of temporary files one run leaves behind because os.remove failed:
\* once it is reached, os.remove succeeds.
MaxLeaked == 1

Req == 1..MaxReq

(* --------------------------- values and inputs ------------------------ *)

\* Python None, and objects: an object is a record whose id is positive.
None == [id |-> 0]
\* The placeholder value load_lipsync_model returns for a found checkpoint.
PyTrue == [id |-> 1, bool |-> TRUE]

\* lipsync_device before load_lipsync_model sets it.
NoDevice == "None"

\* str(e) of the exception a library call raises: each failing call has
\* its own message, named here after the call's way of failing.
MsgOf(outcome) == outcome

\* Paths a request may name, and the ones that exist on disk.
ExistingPaths == {"in.mp4", "dub.wav", "ref.wav"}
VideoPaths == {"in.mp4", "gone.mp4"}
AudioPaths == {"dub.wav", "gone.wav"}
ReferencePaths == {"ref.wav", "gone.wav"}
Filenames == {"", "clip.wav"}

\* Language codes: the ones requests send and the ones a tokenizer may know.
SourceInputs == {"eng_Latn", "fra_Latn"}
TargetInputs == {"uzb_Latn", "uzb_Cyrl", "fra_Latn"}

AllCodes == <<"eng_Latn", "eng", "en", "en_Latn", "fra_Latn", "uzn_Latn",
              "uzb_Latn", "uzb", "uz_Latn", "uz", "uzb_Latin",
              "uzb_Cyrl", "uz_Cyrl", "uzb_Cyrillic">>

\* The token id a tokenizer gives a language code.
LangId(code) == CHOOSE i \in 1..Len(AllCodes) : AllCodes[i] = code

\* What AutoTokenizer.from_pretrained hands back, depending on the installed
\* library and model files: a tokenizer with a lang_code_to_id table over
\* some set of codes (or, has_map FALSE, one without that attribute).
Tokenizer(v) == [has_map |-> TRUE, vocab |-> v]

\* The machines the process is started on: the device torch reports, whether
\* the Wav2Lip checkpoint has been downloaded, and the tokenizer the
\* installed library builds.  Every device, every checkpoint state and every
\* tokenizer kind occurs; the three do not interact in the code (the device
\* is read by the loaders, the checkpoint by load_lipsync_model, the
\* tokenizer's table by translate_text).
Deployments ==
    { [DEVICE |-> "cuda", checkpoint |-> TRUE,
       hub |-> Tokenizer({"eng_Latn", "fra_Latn", "uzn_Latn"})],
      [DEVICE |-> "cpu", checkpoint |-> TRUE,
       hub |-> Tokenizer({"eng_Latn", "uzb_Latn", "uzb_Cyrl"})],
      [DEVICE |-> "cpu", checkpoint |-> FALSE,
       hub |-> Tokenizer({"eng", "uz", "uzb", "uz_Cyrl"})],
      [DEVICE |-> "cuda", checkpoint |-> FALSE,
       hub |-> Tokenizer({"fra_Latn", "uzb_Cyrillic"})],
      [DEVICE |-> "cpu", checkpoint |-> TRUE,
       hub |-> [has_map |-> FALSE, vocab |-> {}]] }

(* ------------------------------- state -------------------------------- *)

VARIABLES
    DEVICE,                 \* app.py DEVICE
    checkpoint,             \* wav2lip_gan.pth exists in MODEL_DIR
    hub,                    \* the tokenizer kind from_pretrained produces
    lifespan_pc,            \* position of app.py lifespan
    models,                 \* app.py models registry
    whisper_model,          \* services/transcribe.py global
    translation_model,      \* services/translate.py globals
    translation_tokenizer,
    emotion_model,          \* services/emotion.py globals
    emotion_tokenizer,
    tts_model,              \* services/tts.py global
    lipsync_model,          \* services/lipsync.py globals
    lipsync_device,
    created,                \* objects constructed so far, per constructor
    tempfiles,              \* temporary files of the requests in flight
    leaked,                 \* temporary files left behind by ended requests
    req,                    \* the requests in flight: endpoint, position, inputs
    response,               \* the request answered last, with its response
    running,                \* the request the event loop is running, or 0
    args,                   \* download_models.py: --model and --force
    disk,                   \* what the model directory and caches hold, per model
    dl_pc,                  \* position of download_models.py main
    todo,                   \* models_to_download still ahead of the loop
    results,                \* main's results, in insertion order
    exit_status             \* the script's exit status, -1 while it runs

globals == <<whisper_model, translation_model, translation_tokenizer,
             emotion_model, emotion_tokenizer, tts_model,
             lipsync_model, lipsync_device>>

env == <<DEVICE, checkpoint, hub>>

downloader == <<args, disk, dl_pc, todo, results, exit_status>>

server == <<lifespan_pc, models, globals, created, tempfiles, leaked, req,
            response, running>>

vars == <<env, downloader, server>>

(* ------------------------------ loaders ------------------------------- *)

\* A fresh object of constructor k: its id is the number built so far + 1.
NewObject(k) == [id |-> created[k] + 1]
NewTokenizer == [id |-> created.tokenizer + 1,
                 has_map |-> hub.has_map, vocab |-> hub.vocab]
Built(k) == [created EXCEPT ![k] = @ + 1]

\* services/transcribe.py load_whisper_model: assigns the global only when
\* whisper.load_model returns; re-raises otherwise.
load_whisper_model(outcome, msg) ==
    IF outcome = "ok"
    THEN [whisper_model |-> NewObject("whisper"), created |-> Built("whisper"),
          raised |-> FALSE, msg |-> "", ret |-> NewObject("whisper")]
    ELSE [whisper_model |-> whisper_model, created |-> created,
          raised |-> TRUE, msg |-> msg, ret |-> None]

\* The ways load_translation_model can end: "tok_fail" raises before or in
\* the tokenizer's from_pretrained, "model_fail" in the model's
\* from_pretrained, "to_fail" in .to(device), which runs only off CUDA.
TranslationLoadOutcomes ==
    {"tok_fail"}
    \cup (IF created.tokenizer < MaxTokenizers
          THEN {"ok", "model_fail"} ELSE {})
    \cup (IF created.tokenizer < MaxTokenizers /\ DEVICE # "cuda"
          THEN {"to_fail"} ELSE {})

\* services/translate.py load_translation_model (force_reload is never
\* passed): skips when both globals are set; otherwise assigns the tokenizer,
\* then the model, each as soon as its from_pretrained returns.
load_translation_model(outcome, msg) ==
    IF translation_model # None /\ translation_tokenizer # None
    THEN [tokenizer |-> translation_tokenizer, model |-> translation_model,
          created |-> created, attempted |-> FALSE,
          raised |-> FALSE, msg |-> "", ret |-> translation_model]
    ELSE IF outcome = "tok_fail"
    THEN [tokenizer |-> translation_tokenizer, model |-> translation_model,
          created |-> created, attempted |-> TRUE,
          raised |-> TRUE, msg |-> msg, ret |-> None]
    ELSE IF outcome = "model_fail"
    THEN [tokenizer |-> NewTokenizer, model |-> translation_model,
          created |-> Built("tokenizer"), attempted |-> TRUE,
          raised |-> TRUE, msg |-> msg, ret |-> None]
    ELSE [tokenizer |-> NewTokenizer, model |-> NewObject("model"),
          created |-> [created EXCEPT !.tokenizer = @ + 1, !.model = @ + 1],
          attempted |-> TRUE,
          raised |-> (outcome = "to_fail"),
          msg |-> IF outcome = "to_fail" THEN msg ELSE "",
          ret |-> IF outcome = "to_fail" THEN None ELSE NewObject("model")]

EmotionLoadOutcomes == {"ok", "tok_fail", "model_fail"}

\* services/emotion.py load_emotion_model: the tokenizer is assigned first;
\* the model is assigned only after from_pretrained(...).to(device) returns.
load_emotion_model(outcome, msg) ==
    IF outcome = "tok_fail"
    THEN [tokenizer |-> emotion_tokenizer, model |-> emotion_model,
          created |-> created, raised |-> TRUE, msg |-> msg, ret |-> None]
    ELSE IF outcome = "model_fail"
    THEN [tokenizer |-> NewObject("emotion_tokenizer"), model |-> emotion_model,
          created |-> Built("emotion_tokenizer"),
          raised |-> TRUE, msg |-> msg, ret |-> None]
    ELSE [tokenizer |-> NewObject("emotion_tokenizer"),
          model |-> NewObject("emotion"),
          created |-> [created EXCEPT !.emotion_tokenizer = @ + 1,
                                      !.emotion = @ + 1],
          raised |-> FALSE, msg |-> "", ret |-> NewObject("emotion")]

\* services/tts.py load_tts_model: assigns the global only when the TTS
\* constructor returns; re-raises otherwise.
load_tts_model(outcome, msg) ==
    IF outcome = "ok"
    THEN [tts_model |-> NewObject("tts"), created |-> Built("tts"),
          raised |-> FALSE, msg |-> "", ret |-> NewObject("tts")]
    ELSE [tts_model |-> tts_model, created |-> created,
          raised |-> TRUE, msg |-> msg, ret |-> None]

\* services/lipsync.py load_lipsync_model: never raises (its except returns
\* None); with the checkpoint present it sets lipsync_device and returns
\* True.  No statement of it assigns lipsync_model.
load_lipsync_model(outcome) ==
    IF outcome = "raise" \/ ~checkpoint
    THEN [lipsync_model |-> lipsync_model, lipsync_device |-> lipsync_device,
          ret |-> None]
    ELSE [lipsync_model |-> lipsync_model, lipsync_device |-> DEVICE,
          ret |-> PyTrue]

(* -------------------------- start of the process ---------------------- *)

ModelKeys == <<"whisper", "translate", "emotion", "tts", "lipsync">>

\* A request slot before the request arrives.  Besides the request's fields
\* and its response, a request keeps what it did: how often it called a
\* loader and the wrapped model call, and the message of the exception
\* either raised ("" when it did not raise), and whether its temporary
\* file was still on disk when it ended.
NoRequest ==
    [ep |-> "none", pc |-> "idle", status |-> 0, detail |-> <<>>,
     load_calls |-> 0, load_error |-> "",
     model_calls |-> 0, call_error |-> "",
     filename |-> "", temp_path |-> 0, temp_left |-> FALSE,
     source_lang |-> "", target_lang |-> "",
     used_source |-> "", used_target |-> "", forced_bos |-> 0,
     video_path |-> "", audio_path |-> "", reference_audio |-> ""]

\* download_models.py MODELS: the keys, in the dictionary's order.
MODELS == <<"whisper", "nllb", "emotion", "xtts", "wav2lip">>

ModelSet == {MODELS[i] : i \in DOMAIN MODELS}

\* The model directory when the downloader has not been run on it: what
\* the deployment holds of the checkpoint, nothing noted of the rest.
NotDownloading(d) ==
    /\ args = [model |-> "all", force |-> FALSE]
    /\ disk = [k \in ModelSet |->
                  IF k = "wav2lip" /\ d.checkpoint THEN "present" ELSE "absent"]
    /\ dl_pc = "off"
    /\ todo = <<>>
    /\ results = <<>>
    /\ exit_status = -1

\* Module import: every model global is None, the registry is empty.
Imported ==
    /\ lifespan_pc = "whisper"
    /\ models = <<>>
    /\ whisper_model = None
    /\ translation_model = None
    /\ translation_tokenizer = None
    /\ emotion_model = None
    /\ emotion_tokenizer = None
    /\ tts_model = None
    /\ lipsync_model = None
    /\ lipsync_device = NoDevice
    /\ created = [whisper |-> 0, tokenizer |-> 0, model |-> 0,
                  emotion_tokenizer |-> 0, emotion |-> 0, tts |-> 0]
    /\ tempfiles = {}
    /\ leaked = 0
    /\ req = [r \in Req |-> NoRequest]
    /\ response = NoRequest
    /\ running = 0

\* The API process as it starts, on one of the deployments.
Init ==
    /\ \E d \in Deployments :
        /\ DEVICE = d.DEVICE
        /\ checkpoint = d.checkpoint
        /\ hub = d.hub
        /\ NotDownloading(d)
    /\ Imported

(* ------------------------------ lifespan ------------------------------ *)

\* A lifespan whose try block ends after the Whisper loader.
InTry_WhisperOnly(key) == key = "whisper"

\* The loader calls that lifespan's try block encloses: all five.
InTry(key) == \E i \in DOMAIN ModelKeys : ModelKeys[i] = key

\* A lifespan that wraps each loader call in a try of its own, so that the
\* loaders after one that raised still run.
LifespanStep_EachInTry(key, raised, ret, next) ==
    /\ lifespan_pc = key
    /\ models' = IF raised THEN models ELSE (key :> ret) @@ models
    /\ lifespan_pc' = next
    /\ UNCHANGED <<env, downloader, tempfiles, leaked, req, response, running>>

\* app.py lifespan, the try block: one loader's step.  A loader that
\* returns stores its value under `key` and the next loader runs; one that
\* raises ends the block (the except logs and startup goes on to serve).
\* An exception raised outside the try block would leave lifespan and the
\* application would fail to start.
LifespanStep(key, raised, ret, next) ==
    /\ lifespan_pc = key
    /\ models' = IF raised THEN models ELSE (key :> ret) @@ models
    /\ lifespan_pc' = IF ~raised THEN next
                      ELSE IF InTry(key) THEN "serving"
                      ELSE "failed"
    /\ UNCHANGED <<env, downloader, tempfiles, leaked, req, response, running>>

LifespanWhisper ==
    \E o \in {"ok", "raise"} :
        LET res == load_whisper_model(o, MsgOf(o)) IN
        /\ LifespanStep("whisper", res.raised, res.ret, "translate")
        /\ whisper_model' = res.whisper_model
        /\ created' = res.created
        /\ UNCHANGED <<translation_model, translation_tokenizer, emotion_model,
                       emotion_tokenizer, tts_model, lipsync_model,
                       lipsync_device>>

LifespanTranslate ==
    \E o \in TranslationLoadOutcomes :
        LET res == load_translation_model(o, MsgOf(o)) IN
        /\ LifespanStep("translate", res.raised, res.ret, "emotion")
        /\ translation_tokenizer' = res.tokenizer
        /\ translation_model' = res.model
        /\ created' = res.created
        /\ UNCHANGED <<whisper_model, emotion_model, emotion_tokenizer,
                       tts_model, lipsync_model, lipsync_device>>

LifespanEmotion ==
    \E o \in EmotionLoadOutcomes :
        LET res == load_emotion_model(o, MsgOf(o)) IN
        /\ LifespanStep("emotion", res.raised, res.ret, "tts")
        /\ emotion_tokenizer' = res.tokenizer
        /\ emotion_model' = res.model
        /\ created' = res.created
        /\ UNCHANGED <<whisper_model, translation_model, translation_tokenizer,
                       tts_model, lipsync_model, lipsync_device>>

LifespanTts ==
    \E o \in {"ok", "raise"} :
        LET res == load_tts_model(o, MsgOf(o)) IN
        /\ LifespanStep("tts", res.raised, res.ret, "lipsync")
        /\ tts_model' = res.tts_model
        /\ created' = res.created
        /\ UNCHANGED <<whisper_model, translation_model, translation_tokenizer,
                       emotion_model, emotion_tokenizer, lipsync_model,
                       lipsync_device>>

LifespanLipsync ==
    \E o \in {"ok", "raise"} :
        LET res == load_lipsync_model(o) IN
        /\ LifespanStep("lipsync", FALSE, res.ret, "serving")
        /\ lipsync_model' = res.lipsync_model
        /\ lipsync_device' = res.lipsync_device
        /\ UNCHANGED <<whisper_model, translation_model, translation_tokenizer,
                       emotion_model, emotion_tokenizer, tts_model, created>>

\* app.py lifespan after the yield: the server has drained its requests;
\* the registry is cleared, the services' globals are left as they are.
Shutdown ==
    /\ lifespan_pc = "serving"
    /\ running = 0
    /\ \A r \in Req : req[r].pc = "idle"
    /\ lifespan_pc' = "stopped"
    /\ models' = <<>>
    /\ UNCHANGED <<env, downloader, globals, created, tempfiles, leaked, req,
                   response, running>>

(* ----------------------------- event loop ----------------------------- *)

\* Handlers that also await between their lazy-load test and the load.
AwaitPoints_AroundLoad ==
    { <<"transcribe", "read">>, <<"translate", "load">>,
      <<"languages", "load">>, <<"tts", "load">> }

\* The places where a handler awaits, so that the event loop may run
\* another request before it resumes: transcribe_audio's
\* `await file.read()` is the only await in the five services.
AwaitPoints == { <<"transcribe", "read">> }

\* A handler gives up the event loop when it awaits and when it ends.
Yields(ep, pc) == pc = "done" \/ <<ep, pc>> \in AwaitPoints

\* Request r is at pc of endpoint ep and the event loop can run it (go on
\* with it, or resume it when the loop is free).
At(r, ep, pc) ==
    /\ req[r].ep = ep
    /\ req[r].pc = pc
    /\ running \in {0, r}

\* Request r moves to the state rec; a request that is done is answered
\* and leaves the server.
Goto(r, rec) ==
    /\ req' = [req EXCEPT ![r] = IF rec.pc = "done" THEN NoRequest ELSE rec]
    /\ response' = IF rec.pc = "done" THEN rec ELSE response
    /\ running' = IF Yields(rec.ep, rec.pc) THEN 0 ELSE r

\* The handler ends with an HTTP response.
Respond(rec, status, detail) ==
    [rec EXCEPT !.pc = "done", !.status = status, !.detail = detail]

\* A handler that calls the loader again when it raised.
Unhandled_Retry(rec) == [rec EXCEPT !.pc = "load"]

\* An exception that leaves a handler uncaught: the framework answers 500.
Unhandled(rec) == Respond(rec, 500, <<"Internal Server Error">>)

PathExists(p) == p \in ExistingPaths

\* A request can arrive in slot r: the application serves, the event loop
\* is free to start a handler, and r is the first free slot.
Accepts(r) ==
    /\ lifespan_pc = "serving"
    /\ running = 0
    /\ req[r].pc = "idle"
    /\ \A q \in Req : q < r => req[q].pc # "idle"

\* A request for endpoint ep as its handler starts.
Request(ep) == [NoRequest EXCEPT !.ep = ep, !.pc = "start"]

\* An except clause that wraps whatever was raised, HTTPException included.
Reraise_WrapAll(rec, exc, prefix) ==
    Respond(rec, 500, <<prefix, exc.msg>>)

\* An except clause that answers 500 without the exception's message.
Reraise_NoMessage(rec, exc, prefix) ==
    IF exc.http
    THEN Respond(rec, exc.status, exc.detail)
    ELSE Respond(rec, 500, <<prefix>>)

\* What the except clauses of generate_speech, translate_text and sync_lips
\* answer for an exception raised in the try block: an HTTPException goes
\* out as it is, anything else becomes a 500 carrying its message.
Reraise(rec, exc, prefix) ==
    IF exc.http
    THEN Respond(rec, exc.status, exc.detail)
    ELSE Respond(rec, 500, <<prefix, exc.msg>>)

HTTPException(status, detail) ==
    [http |-> TRUE, status |-> status, detail |-> detail, msg |-> ""]

Exception(msg) ==
    [http |-> FALSE, status |-> 0, detail |-> <<>>, msg |-> msg]

(* ----------------------------- /transcribe ---------------------------- *)

\* A NamedTemporaryFile that gives every request the same name (the first).
FreshTemp_Same == CHOOSE n \in 1..MaxReq : \A m \in 1..MaxReq : n <= m

\* The name NamedTemporaryFile picks: one no existing file has.  (A file
\* left behind keeps its name for good, so only the names of the files in
\* flight need telling apart.)
FreshTemp == CHOOSE n \in 1..MaxReq : n \notin tempfiles

\* Whether os.remove succeeds is the file system's choice.
RemoveOutcomes == {TRUE} \cup (IF leaked < MaxLeaked THEN {FALSE} ELSE {})

\* transcribe_audio's two checks in the other order (filename first).
TranscribeChecks_FilenameFirst(filename) ==
    IF filename = "" THEN 400
    ELSE IF whisper_model = None THEN 503
    ELSE 0

\* transcribe_audio's checks before its try block, in the code's order: the
\* status they raise, 0 when the request passes.
TranscribeChecks(filename) ==
    IF whisper_model = None THEN 503
    ELSE IF filename = "" THEN 400
    ELSE 0

\* transcribe_audio up to its await: the 503 check, the 400 check, then
\* the temporary file is created (or its creation raises, with temp_path
\* still None) and the handler awaits file.read().
TranscribeStart(r) ==
    /\ Accepts(r)
    /\ \E f \in Filenames, o \in {"ok", "tmp_raise"} :
        LET rec == [Request("transcribe") EXCEPT !.filename = f] IN
        IF TranscribeChecks(f) = 503
        THEN /\ Goto(r, Respond(rec, 503, <<"Whisper model not loaded">>))
             /\ UNCHANGED tempfiles
        ELSE IF TranscribeChecks(f) = 400
        THEN /\ Goto(r, Respond(rec, 400, <<"No filename provided">>))
             /\ UNCHANGED tempfiles
        ELSE IF o = "tmp_raise"
        THEN /\ Goto(r, Respond(rec, 500,
                                 <<"Transcription failed: ", MsgOf(o)>>))
             /\ UNCHANGED tempfiles
        ELSE /\ Goto(r, [rec EXCEPT !.pc = "read", !.temp_path = FreshTemp])
             /\ tempfiles' = tempfiles \cup {FreshTemp}
    /\ UNCHANGED <<env, downloader, lifespan_pc, models, globals, created,
                   leaked>>

\* transcribe_audio from the await on: the upload is read and written, the
\* model transcribes, the segments are formatted; any exception becomes a
\* 500; the finally block removes the temporary file (a failing os.remove
\* is swallowed).
TranscribeResume(r) ==
    /\ At(r, "transcribe", "read")
    /\ \E o \in {"ok", "read_raise", "transcribe_raise", "format_raise"},
          removed \in RemoveOutcomes :
        /\ Goto(r, LET rec == [req[r] EXCEPT
                              !.temp_left =
                                  req[r].temp_path \in tempfiles /\ ~removed,
                              !.model_calls =
                                  IF o = "read_raise" THEN @ ELSE @ + 1,
                              !.call_error =
                                  IF o = "transcribe_raise" THEN MsgOf(o) ELSE @]
                   IN  IF o = "ok"
                       THEN Respond(rec, 200, <<"segments">>)
                       ELSE Respond(rec, 500,
                                    <<"Transcription failed: ", MsgOf(o)>>))
        /\ tempfiles' = tempfiles \ {req[r].temp_path}
        /\ leaked' = IF req[r].temp_path \in tempfiles /\ ~removed
                     THEN leaked + 1 ELSE leaked
    /\ UNCHANGED <<env, downloader, lifespan_pc, models, globals, created>>

(* ------------------------------ /emotion ------------------------------ *)

\* A detect_emotion that loads the model itself when it is not loaded.
DetectEmotion_Lazy(r) ==
    /\ Accepts(r)
    /\ emotion_model' = IF emotion_model = None
                        THEN NewObject("emotion") ELSE emotion_model
    /\ Goto(r, Respond(Request("emotion"), 200, <<"emotion">>))
    /\ UNCHANGED <<env, downloader, lifespan_pc, models, whisper_model,
                   translation_model, translation_tokenizer,
                   emotion_tokenizer, tts_model, lipsync_model,
                   lipsync_device, created, tempfiles, leaked>>

\* detect_emotion: 503 unless model and tokenizer are both set; otherwise
\* one tokenizer-and-classifier pass, any exception of which becomes a 500.
DetectEmotion(r) ==
    /\ Accepts(r)
    /\ \E o \in {"ok", "raise"} :
        Goto(r, IF emotion_model = None \/ emotion_tokenizer = None
                THEN Respond(Request("emotion"), 503,
                             <<"Emotion model not loaded">>)
                ELSE LET rec == [Request("emotion") EXCEPT
                                    !.model_calls = @ + 1,
                                    !.call_error =
                                        IF o = "raise" THEN MsgOf(o) ELSE @]
                     IN  IF o = "ok"
                         THEN Respond(rec, 200, <<"emotion">>)
                         ELSE Respond(rec, 500,
                                      <<"Emotion detection failed: ", MsgOf(o)>>))
    /\ UNCHANGED <<env, downloader, lifespan_pc, models, globals, created,
                   tempfiles, leaked>>

(* ----------------------------- /translate ----------------------------- *)

\* translate_text's uzbek_alternatives.get(target_lang, [target_lang]).
uzbek_alternatives(target_lang) ==
    IF target_lang = "uzb_Latn"
    THEN <<"uzb_Latn", "uzb", "uz_Latn", "uz", "uzb_Latin">>
    ELSE IF target_lang = "uzb_Cyrl"
    THEN <<"uzb_Cyrl", "uz_Cyrl", "uzb_Cyrillic">>
    ELSE <<target_lang>>

eng_alternatives == <<"eng_Latn", "eng", "en", "en_Latn">>

\* A lookup that takes the last code of the list that the tokenizer knows.
FirstKnown_Last(codes, vocab) ==
    IF \E i \in 1..Len(codes) : codes[i] \in vocab
    THEN codes[CHOOSE i \in 1..Len(codes) :
                  /\ codes[i] \in vocab
                  /\ \A j \in (i + 1)..Len(codes) : codes[j] \notin vocab]
    ELSE ""

\* The first code of the list that the tokenizer knows, "" when none is.
FirstKnown(codes, vocab) ==
    IF \E i \in 1..Len(codes) : codes[i] \in vocab
    THEN codes[CHOOSE i \in 1..Len(codes) :
                  /\ codes[i] \in vocab
                  /\ \A j \in 1..(i - 1) : codes[j] \notin vocab]
    ELSE ""

\* The target code translate_text ends up using: the requested one when the
\* tokenizer knows it, else the first known alternative.
ResolveTarget(vocab, target_lang) ==
    IF target_lang \in vocab
    THEN target_lang
    ELSE FirstKnown(uzbek_alternatives(target_lang), vocab)

\* The source code translate_text ends up using: the requested one when the
\* tokenizer knows it, else the first known English code, whatever language
\* was requested.
ResolveSource(vocab, source_lang) ==
    IF source_lang \in vocab
    THEN source_lang
    ELSE FirstKnown(eng_alternatives, vocab)

\* translate_text, the lazy-load test.
TranslateCheck(r) ==
    /\ Accepts(r)
    /\ Goto(r, [Request("translate") EXCEPT !.pc =
                   IF translation_model = None \/ translation_tokenizer = None
                   THEN "load" ELSE "run"])
    /\ UNCHANGED <<env, downloader, lifespan_pc, models, globals, created,
                   tempfiles, leaked>>

\* translate_text, the lazy load: load_translation_model is called outside
\* any try, so what it raises leaves the handler uncaught.
TranslateLoad(r) ==
    /\ At(r, "translate", "load")
    /\ \E o \in TranslationLoadOutcomes :
        LET res == load_translation_model(o, MsgOf(o))
            rec == [req[r] EXCEPT !.load_calls = @ + 1,
                                  !.load_error = res.msg]
        IN  /\ translation_tokenizer' = res.tokenizer
            /\ translation_model' = res.model
            /\ created' = res.created
            /\ Goto(r, IF res.raised
                       THEN Unhandled(rec)
                       ELSE [rec EXCEPT !.pc = "run"])
    /\ UNCHANGED <<env, downloader, lifespan_pc, models, whisper_model,
                   emotion_model, emotion_tokenizer, tts_model,
                   lipsync_model, lipsync_device, tempfiles, leaked>>

\* translate_text from the 503 test on: the 503 test, the lang_code_to_id
\* test, the target code and then the source code; then one pass of
\* tokenize / generate / decode, any exception of which becomes a 500
\* carrying its message.  (The request's fields are first read here.)
TranslateRun(r) ==
    /\ At(r, "translate", "run")
    /\ \E s \in SourceInputs, t \in TargetInputs, o \in {"ok", "raise"} :
        Goto(r,
            LET rec    == [req[r] EXCEPT !.source_lang = s, !.target_lang = t]
                vocab  == translation_tokenizer.vocab
                target == ResolveTarget(vocab, t)
                source == ResolveSource(vocab, s)
                called == [rec EXCEPT !.model_calls = @ + 1,
                                      !.used_source = source,
                                      !.used_target = target,
                                      !.forced_bos = LangId(target)]
                prefix == "Translation failed: "
            IN  IF translation_model = None \/ translation_tokenizer = None
                THEN Respond(rec, 503, <<"Translation model not loaded">>)
                ELSE IF ~translation_tokenizer.has_map
                THEN Reraise(rec, HTTPException(500,
                        <<"Tokenizer missing lang_code_to_id attribute">>),
                        prefix)
                ELSE IF target = ""
                THEN Reraise(rec, HTTPException(400,
                        <<"Unsupported target language: ", t>>), prefix)
                ELSE IF source = ""
                THEN Reraise(rec, HTTPException(400,
                        <<"Unsupported source language: ", s>>), prefix)
                ELSE IF o = "raise"
                THEN Reraise([called EXCEPT !.call_error = MsgOf(o)],
                             Exception(MsgOf(o)), prefix)
                ELSE Respond(called, 200, <<"translated_text">>))
    /\ UNCHANGED <<env, downloader, lifespan_pc, models, globals, created,
                   tempfiles, leaked>>

(* ------------------------- /translate/languages ----------------------- *)

\* list_supported_languages, the lazy-load test (the tokenizer alone).
LanguagesCheck(r) ==
    /\ Accepts(r)
    /\ Goto(r, [Request("languages") EXCEPT !.pc =
                   IF translation_tokenizer = None THEN "load" ELSE "list"])
    /\ UNCHANGED <<env, downloader, lifespan_pc, models, globals, created,
                   tempfiles, leaked>>

\* list_supported_languages, the lazy load, inside try/except: a raise
\* becomes a 503.
LanguagesLoad(r) ==
    /\ At(r, "languages", "load")
    /\ \E o \in TranslationLoadOutcomes :
        LET res == load_translation_model(o, MsgOf(o))
            rec == [req[r] EXCEPT !.load_calls = @ + 1,
                                  !.load_error = res.msg]
        IN  /\ translation_tokenizer' = res.tokenizer
            /\ translation_model' = res.model
            /\ created' = res.created
            /\ Goto(r, IF res.raised
                       THEN Respond(rec, 503,
                               <<"Could not load translation model: ", res.msg>>)
                       ELSE [rec EXCEPT !.pc = "list"])
    /\ UNCHANGED <<env, downloader, lifespan_pc, models, whisper_model,
                   emotion_model, emotion_tokenizer, tts_model,
                   lipsync_model, lipsync_device, tempfiles, leaked>>

\* list_supported_languages, the listing.
LanguagesList(r) ==
    /\ At(r, "languages", "list")
    /\ Goto(r, IF ~translation_tokenizer.has_map
               THEN Respond(req[r], 500,
                            <<"Tokenizer missing lang_code_to_id attribute">>)
               ELSE Respond(req[r], 200, <<"all_codes">>))
    /\ UNCHANGED <<env, downloader, lifespan_pc, models, globals, created,
                   tempfiles, leaked>>

(* -------------------------------- /tts -------------------------------- *)

\* A handler without the lazy load (as /transcribe and /emotion are).
TtsNeedsLoad_Never == FALSE

\* generate_speech's lazy-load test.
TtsNeedsLoad == tts_model = None

\* generate_speech, the lazy-load test.
TtsCheck(r) ==
    /\ Accepts(r)
    /\ Goto(r, [Request("tts") EXCEPT !.pc =
                   IF TtsNeedsLoad THEN "load" ELSE "run"])
    /\ UNCHANGED <<env, downloader, lifespan_pc, models, globals, created,
                   tempfiles, leaked>>

\* generate_speech, the lazy load, inside try/except: a raise becomes a 503.
TtsLoad(r) ==
    /\ At(r, "tts", "load")
    /\ \E o \in {"ok", "raise"} :
        LET res == load_tts_model(o, MsgOf(o))
            rec == [req[r] EXCEPT !.load_calls = @ + 1,
                                  !.load_error = res.msg]
        IN  /\ tts_model' = res.tts_model
            /\ created' = res.created
            /\ Goto(r, IF res.raised
                       THEN Respond(rec, 503,
                               <<"TTS model not loaded. Error: ", res.msg>>)
                       ELSE [rec EXCEPT !.pc = "run"])
    /\ UNCHANGED <<env, downloader, lifespan_pc, models, whisper_model,
                   translation_model, translation_tokenizer, emotion_model,
                   emotion_tokenizer, lipsync_model, lipsync_device,
                   tempfiles, leaked>>

\* generate_speech from the 503 test on: the reference audio must exist,
\* the output directory is made, tts_to_file runs once, the output file is
\* read back for its duration.  (The request's fields are first read here.)
GenerateSpeech(r) ==
    /\ At(r, "tts", "run")
    /\ \E a \in ReferencePaths,
          o \in {"ok", "makedirs_raise", "tts_raise", "no_output", "read_raise"} :
        Goto(r,
            LET rec    == [req[r] EXCEPT !.reference_audio = a]
                called == [rec EXCEPT !.model_calls = @ + 1]
                prefix == "TTS generation failed: "
            IN  IF tts_model = None
                THEN Respond(rec, 503, <<"TTS model not loaded">>)
                ELSE IF ~PathExists(rec.reference_audio)
                THEN Reraise(rec, HTTPException(400,
                        <<"Reference audio file not found: ",
                          rec.reference_audio>>), prefix)
                ELSE IF o = "makedirs_raise"
                THEN Reraise(rec, Exception(MsgOf(o)), prefix)
                ELSE IF o = "tts_raise"
                THEN Reraise([called EXCEPT !.call_error = MsgOf(o)],
                             Exception(MsgOf(o)), prefix)
                ELSE IF o = "no_output"
                THEN Reraise(called, HTTPException(500,
                        <<"Failed to generate audio file">>), prefix)
                ELSE IF o = "read_raise"
                THEN Reraise(called, Exception(MsgOf(o)), prefix)
                ELSE Respond(called, 200, <<"success">>))
    /\ UNCHANGED <<env, downloader, lifespan_pc, models, globals, created,
                   tempfiles, leaked>>

(* ------------------------------ /lipsync ------------------------------ *)

\* sync_lips: 503 while lipsync_model is None; then both input files must
\* exist, the output directory is made, ffmpeg runs once, and its exit code
\* and output file decide the answer.
SyncLips(r) ==
    /\ Accepts(r)
    /\ \E v \in VideoPaths, a \in AudioPaths,
          o \in {"ok", "makedirs_raise", "run_raise", "nonzero", "no_output"} :
        Goto(r,
            LET rec    == [Request("lipsync") EXCEPT
                              !.video_path = v, !.audio_path = a]
                called == [rec EXCEPT !.model_calls = @ + 1]
                prefix == "Lip-sync failed: "
            IN  IF lipsync_model = None
                THEN Respond(rec, 503, <<"Wav2Lip model not loaded">>)
                ELSE IF ~PathExists(rec.video_path)
                THEN Reraise(rec, HTTPException(400,
                        <<"Video file not found: ", rec.video_path>>), prefix)
                ELSE IF ~PathExists(rec.audio_path)
                THEN Reraise(rec, HTTPException(400,
                        <<"Audio file not found: ", rec.audio_path>>), prefix)
                ELSE IF o = "makedirs_raise"
                THEN Reraise(rec, Exception(MsgOf(o)), prefix)
                ELSE IF o = "run_raise"
                THEN Reraise([called EXCEPT !.call_error = MsgOf(o)],
                             Exception(MsgOf(o)), prefix)
                ELSE IF o = "nonzero"
                THEN Reraise(called, HTTPException(500,
                        <<"FFmpeg failed: ", MsgOf(o)>>), prefix)
                ELSE IF o = "no_output"
                THEN Reraise(called, HTTPException(500,
                        <<"Failed to generate output video">>), prefix)
                ELSE Respond(called, 200, <<"success">>))
    /\ UNCHANGED <<env, downloader, lifespan_pc, models, globals, created,
                   tempfiles, leaked>>

(* --------------------------- the whole system ------------------------- *)

Next ==
    \/ LifespanWhisper
    \/ LifespanTranslate
    \/ LifespanEmotion
    \/ LifespanTts
    \/ LifespanLipsync
    \/ Shutdown
    \/ \E r \in Req :
        \/ TranscribeStart(r)
        \/ TranscribeResume(r)
        \/ DetectEmotion(r)
        \/ TranslateCheck(r)
        \/ TranslateLoad(r)
        \/ TranslateRun(r)
        \/ LanguagesCheck(r)
        \/ LanguagesLoad(r)
        \/ LanguagesList(r)
        \/ TtsCheck(r)
        \/ TtsLoad(r)
        \/ GenerateSpeech(r)
        \/ SyncLips(r)

Spec == Init /\ [][Next]_vars

\* Startup: lifespan's loader calls run one after the other in one
\* coroutine before the server accepts anything; each call returns or
\* raises, so startup goes on while a loader call is ahead of it.
Startup ==
    \/ LifespanWhisper
    \/ LifespanTranslate
    \/ LifespanEmotion
    \/ LifespanTts
    \/ LifespanLipsync

FairSpec == Spec /\ WF_vars(Startup)

(* ------------------------- download_models.py ------------------------- *)

\* What --model accepts.
Selections == {"all"} \cup ModelSet

\* What the disk can hold of a model.  For wav2lip it is the file
\* wav2lip_gan.pth: "absent", "small" (there, of at most 1000000 bytes) or
\* "present" (there and larger).  For the others it is the path
\* check_model_exists looks at, which the library fills when it downloads.
DiskStates(model_key) ==
    IF model_key = "wav2lip" THEN {"absent", "small", "present"}
    ELSE {"absent", "present"}

\* check_model_exists: the checkpoint must exist and exceed 1000000 bytes;
\* for xtts the answer is True whatever the disk holds.
check_model_exists(model_key) ==
    IF model_key = "wav2lip" THEN disk[model_key] = "present"
    ELSE IF model_key = "whisper" THEN disk[model_key] = "present"
    ELSE IF model_key = "xtts" THEN TRUE
    ELSE disk[model_key] = "present"

\* How a download function's network and file work can end.
DownloadOutcomes(model_key) ==
    IF model_key = "wav2lip"
    THEN {"ok", "short", "get_raise", "write_raise"}
    ELSE {"ok", "raise"}

\* download_wav2lip: returns True at once when the file exists, whatever its
\* size; otherwise requests.get and the writing of the body, whose HTTP
\* status is not looked at ("short": a body of at most 1000000 bytes is
\* saved and True returned); an exception returns False, with the file
\* already created when it came from the writing.
download_wav2lip(outcome) ==
    IF disk["wav2lip"] # "absent"
    THEN [success |-> TRUE, fetched |-> FALSE, disk |-> disk["wav2lip"]]
    ELSE IF outcome = "ok"
    THEN [success |-> TRUE, fetched |-> TRUE, disk |-> "present"]
    ELSE IF outcome = "short"
    THEN [success |-> TRUE, fetched |-> TRUE, disk |-> "small"]
    ELSE IF outcome = "get_raise"
    THEN [success |-> FALSE, fetched |-> TRUE, disk |-> "absent"]
    ELSE [success |-> FALSE, fetched |-> TRUE, disk |-> "small"]

\* download_whisper, download_transformers_model, download_emotion_model
\* and download_xtts: one library call that "will download if not cached",
\* inside try/except: True when it returns, False when it raises.
download_by_library(model_key, outcome) ==
    IF outcome = "ok"
    THEN [success |-> TRUE, fetched |-> disk[model_key] = "absent",
          disk |-> "present"]
    ELSE [success |-> FALSE, fetched |-> disk[model_key] = "absent",
          disk |-> disk[model_key]]

\* download_model's test for skipping.
SkipTest(model_key, force) == ~force /\ check_model_exists(model_key)

\* download_model: what it returns and what it did.  `before` is what the
\* disk held when it was called, `skipped` that it reported "already
\* exists", `called` that it went on to the model's download function and
\* `fetched` that this function asked the network for the model.
download_model(model_key, force, outcome) ==
    IF SkipTest(model_key, force)
    THEN [key |-> model_key, before |-> disk[model_key], skipped |-> TRUE,
          called |-> FALSE, fetched |-> FALSE, success |-> TRUE,
          disk |-> disk[model_key]]
    ELSE LET res == IF model_key = "wav2lip"
                    THEN download_wav2lip(outcome)
                    ELSE download_by_library(model_key, outcome)
         IN  [key |-> model_key, before |-> disk[model_key],
              skipped |-> FALSE, called |-> TRUE, fetched |-> res.fetched,
              success |-> res.success, disk |-> res.disk]

\* main's models_to_download.
models_to_download ==
    IF args.model = "all" THEN MODELS ELSE <<args.model>>

\* The script is started: any --model and --force, on any model directory.
DlInit ==
    /\ \E d \in Deployments, dk \in [ModelSet -> {"absent", "small", "present"}] :
        /\ \A k \in ModelSet : dk[k] \in DiskStates(k)
        /\ d.checkpoint = (dk["wav2lip"] # "absent")
        /\ DEVICE = d.DEVICE
        /\ checkpoint = d.checkpoint
        /\ hub = d.hub
        /\ disk = dk
    /\ args \in [model : Selections, force : BOOLEAN]
    /\ dl_pc = "start"
    /\ todo = <<>>
    /\ results = <<>>
    /\ exit_status = -1
    /\ Imported

\* main up to the loop: with less free space than the models' total size
\* it asks, and any answer but y exits with status 1.
DlStart ==
    /\ dl_pc = "start"
    /\ \E low \in BOOLEAN, answer \in {"y", "n"} :
        IF low /\ answer # "y"
        THEN /\ dl_pc' = "aborted"
             /\ exit_status' = 1
             /\ todo' = todo
        ELSE /\ dl_pc' = "loop"
             /\ exit_status' = exit_status
             /\ todo' = models_to_download
    /\ UNCHANGED <<env, server, args, disk, results>>

\* One turn of main's loop: results[model_key] = download_model(...).
DlDownload ==
    /\ dl_pc = "loop"
    /\ todo # <<>>
    /\ \E o \in DownloadOutcomes(Head(todo)) :
        LET res == download_model(Head(todo), args.force, o) IN
        /\ results' = Append(results, res)
        /\ disk' = [disk EXCEPT ![Head(todo)] = res.disk]
        /\ checkpoint' = IF Head(todo) = "wav2lip"
                         THEN res.disk # "absent" ELSE checkpoint
    /\ todo' = Tail(todo)
    /\ UNCHANGED <<DEVICE, hub, server, args, dl_pc, exit_status>>

\* main after the loop: the summary; sys.exit(1) when a model failed;
\* otherwise the disk usage is summed, the first sum (os.listdir and
\* os.path.getsize over the model directory) outside any try, so that an
\* OSError there ends the script with a traceback and status 1.
DlSummary ==
    /\ dl_pc = "loop"
    /\ todo = <<>>
    /\ \E o \in {"ok", "usage_raise"} :
        LET failed == {i \in DOMAIN results : ~results[i].success} IN
        exit_status' = IF failed # {} THEN 1
                       ELSE IF o = "usage_raise" THEN 1
                       ELSE 0
    /\ dl_pc' = "exited"
    /\ UNCHANGED <<env, server, args, disk, todo, results>>

DlNext ==
    \/ DlStart
    \/ DlDownload
    \/ DlSummary

DlSpec == DlInit /\ [][DlNext]_vars

(* ------------------------------- claims ------------------------------- *)

\* The request answered last is one of endpoint ep.
Answered(ep) == response.ep = ep

\* C1: once load_lipsync_model has returned True at startup (the registry
\* holds True under "lipsync"), a POST /lipsync whose video and audio files
\* both exist is not answered 503.
C1_LipsyncAvailableAfterLoad ==
    ( /\ "lipsync" \in DOMAIN models
      /\ models["lipsync"] = PyTrue
      /\ Answered("lipsync")
      /\ PathExists(response.video_path)
      /\ PathExists(response.audio_path) )
    => response.status # 503

\* C2: a POST /translate whose lazy load_translation_model call raised is
\* answered 503.
C2_TranslateLoadFailureIs503 ==
    (Answered("translate") /\ response.load_error # "")
    => response.status = 503

\* C3: a POST /translate whose source_lang the tokenizer's table does not
\* hold is answered 400 and nothing is translated.
C3_UnknownSourceRejected ==
    ( /\ Answered("translate")
      /\ response.source_lang # ""
      /\ translation_tokenizer # None
      /\ translation_tokenizer.has_map
      /\ response.source_lang \notin translation_tokenizer.vocab )
    => (response.status = 400 /\ response.model_calls = 0)

\* C4: a POST /transcribe answered while whisper_model is None, and a POST
\* /emotion answered while emotion_model is None, gets 503 with no model
\* call and no temporary file, whatever the upload's filename.
C4_NotLoadedIs503 ==
    /\ (Answered("transcribe") /\ whisper_model = None)
       => ( /\ response.status = 503
            /\ response.model_calls = 0
            /\ response.temp_path = 0 )
    /\ (Answered("emotion") /\ emotion_model = None)
       => ( /\ response.status = 503
            /\ response.model_calls = 0 )

\* C4's case: an upload without a filename met a Whisper model that is not
\* loaded (nor is the emotion model) and was answered 503.
C4_Witness ==
    /\ Answered("transcribe")
    /\ whisper_model = None
    /\ response.filename = ""
    /\ response.status = 503
    /\ emotion_model = None

\* C5: a POST /tts attempts the load exactly when tts_model is None; a load
\* that raises answers 503 and leaves tts_model None (so the next request
\* attempts it again); a load is attempted only while tts_model is None and
\* a loaded tts_model never goes back to None.
C5_TtsLazyLoad ==
    [][ /\ \A r \in Req :
            /\ TtsCheck(r) => ((req'[r].pc = "load") <=> (tts_model = None))
            /\ TtsLoad(r) => tts_model = None
            /\ (TtsLoad(r) /\ created'.tts = created.tts)
               => ( /\ response'.ep = "tts"
                    /\ response'.status = 503
                    /\ req'[r] = NoRequest
                    /\ tts_model' = None )
            /\ (TtsLoad(r) /\ created'.tts # created.tts)
               => (tts_model' # None /\ req'[r].pc = "run")
        /\ tts_model # None => tts_model' = tts_model
      ]_vars

\* C5's case: a /tts request was answered 503 because its load raised,
\* tts_model is still None, and the next /tts request is about to load.
C5_Witness ==
    /\ Answered("tts")
    /\ response.status = 503
    /\ response.load_error # ""
    /\ tts_model = None
    /\ \E r \in Req : req[r].ep = "tts" /\ req[r].pc = "load"

\* C6: a /translate, /tts or /lipsync request whose try block raised an
\* HTTP error for a validation failure (a language code the tokenizer cannot
\* resolve, a missing reference audio, a missing video or audio file) is
\* answered 400, not 500.
C6_ValidationErrorsKeepStatus ==
    /\ ( /\ Answered("translate")
         /\ response.source_lang # ""
         /\ translation_model # None
         /\ translation_tokenizer # None
         /\ translation_tokenizer.has_map
         /\ \/ ResolveTarget(translation_tokenizer.vocab,
                             response.target_lang) = ""
            \/ ResolveSource(translation_tokenizer.vocab,
                             response.source_lang) = "" )
       => response.status = 400
    /\ ( /\ Answered("tts")
         /\ response.reference_audio # ""
         /\ tts_model # None
         /\ ~PathExists(response.reference_audio) )
       => response.status = 400
    /\ ( /\ Answered("lipsync")
         /\ lipsync_model # None
         /\ \/ ~PathExists(response.video_path)
            \/ ~PathExists(response.audio_path) )
       => response.status = 400

\* C6's case: a /tts request naming a reference audio that does not exist
\* reached the try block and was answered.
C6_Witness ==
    /\ Answered("tts")
    /\ response.reference_audio = "gone.wav"
    /\ tts_model # None
    /\ response.status = 400

\* C7: a request whose wrapped model call raised is answered 500 and the
\* detail holds the exception's message.
C7_ModelCallFailureIs500 ==
    response.call_error # ""
    => ( /\ response.status = 500
         /\ \E i \in DOMAIN response.detail :
                response.detail[i] = response.call_error )

\* C7's case: tts_to_file raised in a /tts request.
C7_Witness ==
    /\ Answered("tts")
    /\ response.call_error = MsgOf("tts_raise")
    /\ response.model_calls = 1

\* The requests in flight that passed a lazy-load test of the given
\* endpoints and have not loaded yet.
AboutToLoad(eps) == { r \in Req : req[r].ep \in eps /\ req[r].pc = "load" }

\* C8: the translation model's from_pretrained and the TTS constructor each
\* succeed at most once per process, and no two requests are both past the
\* same model's lazy-load test with the load still ahead of them.
C8_LoadsAtMostOnce ==
    /\ created.model <= 1
    /\ created.tts <= 1
    /\ Cardinality(AboutToLoad({"translate", "languages"})) <= 1
    /\ Cardinality(AboutToLoad({"tts"})) <= 1

\* C8's case: with another request in flight, a /translate request loaded
\* the translation model lazily, and the TTS model has been built too.
C8_Witness ==
    /\ Answered("translate")
    /\ response.load_calls = 1
    /\ response.load_error = ""
    /\ created.model = 1
    /\ created.tts = 1
    /\ \E r \in Req : req[r].pc # "idle"

\* C9: while the application serves, a model or tokenizer global that is
\* not None is never assigned again (and /transcribe, /emotion and /lipsync
\* assign none at all).
C9_ModelStateReadOnly ==
    [][ lifespan_pc = "serving" =>
          /\ whisper_model' = whisper_model
          /\ emotion_model' = emotion_model
          /\ emotion_tokenizer' = emotion_tokenizer
          /\ lipsync_model' = lipsync_model
          /\ translation_model # None => translation_model' = translation_model
          /\ translation_tokenizer # None
             => translation_tokenizer' = translation_tokenizer
          /\ tts_model # None => tts_model' = tts_model
      ]_vars

\* C10: a request calls a loader at most once and the wrapped model call at
\* most once; a raise of either ends it with an error response (no request
\* in flight has had one), and nothing is called after a failed load.
C10_NoRetry ==
    /\ \A r \in Req :
        /\ req[r].load_calls <= 1
        /\ req[r].model_calls <= 1
        /\ req[r].load_error = ""
        /\ req[r].call_error = ""
    /\ response.load_calls <= 1
    /\ response.model_calls <= 1
    /\ response.load_error # ""
       => (response.status >= 400 /\ response.model_calls = 0)
    /\ response.call_error # "" => response.status >= 400

\* C10's case: a /translate request loaded the model lazily, called generate
\* once, and generate raised.
C10_Witness ==
    /\ Answered("translate")
    /\ response.load_calls = 1
    /\ response.model_calls = 1
    /\ response.call_error # ""
    /\ response.status = 500

\* C11: startup does not fail because of model loading: whichever loader
\* raises, the application never ends up failed and reaches the serving
\* state.
C11_StartupReachesServing ==
    /\ [](lifespan_pc # "failed")
    /\ <>(lifespan_pc = "serving")

\* C11's case: the TTS loader raised at startup (the three loaders before
\* it returned) and the application serves.
C11_Witness ==
    /\ lifespan_pc = "serving"
    /\ DOMAIN models = {"whisper", "translate", "emotion"}
    /\ tts_model = None

\* C12: with --force, every download_model call goes on to the model's
\* download function, and a wav2lip_gan.pth that was already on disk is
\* fetched again.
C12_ForceDownloadsAll ==
    args.force =>
        \A i \in DOMAIN results :
            /\ results[i].called
            /\ (results[i].key = "wav2lip" /\ results[i].before # "absent")
               => results[i].fetched

\* C13: without --force, download_model reports "already exists" only for
\* a model that is on disk, and a model that is absent has its download
\* function called.
C13_SkipOnlyIfDownloaded ==
    ~args.force =>
        \A i \in DOMAIN results :
            /\ results[i].skipped => results[i].before = "present"
            /\ results[i].before = "absent" => results[i].called

\* C14: main's loop takes the selected models in MODELS order, all of them
\* whatever the earlier ones returned, and the script that got past the
\* disk-space prompt exits with status 1 exactly when a model failed.
C14_AttemptsAllExitStatus ==
    /\ dl_pc \in {"loop", "exited"} =>
        /\ Len(results) + Len(todo) = Len(models_to_download)
        /\ \A i \in DOMAIN results : results[i].key = models_to_download[i]
    /\ dl_pc = "exited" =>
        /\ Len(results) = Len(models_to_download)
        /\ exit_status \in {0, 1}
        /\ (exit_status = 1) <=> (\E i \in DOMAIN results : ~results[i].success)

\* The first n keys of the loading order.
FirstKeys(n) == {ModelKeys[i] : i \in 1..n}

\* C15: the registry's keys are always the first few of whisper,
\* translate, emotion, tts, lipsync: while the loader of position i is
\* ahead, exactly the i-1 keys before it are there; a loader step either
\* adds its own key and passes to the next loader, or (it raised) adds
\* nothing and ends startup, after which no loader step of startup follows
\* and no key is added.
C15_RegistryIsPrefix ==
    /\ [](/\ \E n \in 0..Len(ModelKeys) : DOMAIN models = FirstKeys(n)
          /\ \A i \in DOMAIN ModelKeys :
                lifespan_pc = ModelKeys[i] => DOMAIN models = FirstKeys(i - 1))
    /\ [][ /\ \A i \in DOMAIN ModelKeys :
                (lifespan_pc = ModelKeys[i] /\ lifespan_pc' # lifespan_pc)
                => \/ /\ DOMAIN models' = FirstKeys(i)
                      /\ lifespan_pc' = IF i < Len(ModelKeys)
                                        THEN ModelKeys[i + 1] ELSE "serving"
                   \/ /\ models' = models
                      /\ lifespan_pc' = "serving"
           /\ lifespan_pc \in {"serving", "stopped"}
              => /\ lifespan_pc' \in {"serving", "stopped"}
                 /\ DOMAIN models' \subseteq DOMAIN models
         ]_vars

\* C15's case: the translation loader raised at startup, so the registry
\* holds whisper alone and neither the emotion nor the TTS loader ran; the
\* application serves and has answered a request.
C15_Witness ==
    /\ lifespan_pc = "serving"
    /\ DOMAIN models = {"whisper"}
    /\ created.emotion_tokenizer = 0
    /\ created.tts = 0
    /\ response.status # 0

\* C16: once the application serves, a Whisper, emotion or lip-sync model
\* that is None stays None, and every /transcribe and /emotion request
\* answered while theirs is None gets 503; only the translation and TTS
\* globals are set after startup.
C16_NoLateLoad ==
    [][ lifespan_pc = "serving" =>
          /\ whisper_model = None => whisper_model' = None
          /\ emotion_model = None => emotion_model' = None
          /\ lipsync_model = None => lipsync_model' = None
          /\ (whisper_model = None /\ response' # response
                                   /\ response'.ep = "transcribe")
             => response'.status = 503
          /\ (emotion_model = None /\ response' # response
                                   /\ response'.ep = "emotion")
             => response'.status = 503
      ]_vars

\* C16's case: Whisper's loader raised at startup (so no later loader ran);
\* a /transcribe and then a /emotion request were answered 503, while the
\* translation and TTS models have been loaded lazily since.
C16_Witness ==
    /\ lifespan_pc = "serving"
    /\ whisper_model = None
    /\ emotion_model = None
    /\ Answered("emotion")
    /\ response.status = 503
    /\ translation_model # None
    /\ tts_model # None

\* Each request that is at its upload read has its temporary file on disk,
\* and no two of them have the same file.
OwnTempFiles ==
    /\ \A r \in Req :
          req[r].pc = "read" => req[r].temp_path \in tempfiles
    /\ \A r, q \in Req :
          (r # q /\ req[r].pc = "read" /\ req[q].pc = "read")
          => req[r].temp_path # req[q].temp_path

\* C17 as stated: a /transcribe request that created a temporary file ends
\* with that file gone, whether transcription succeeded or raised, and
\* requests that interleave at the upload read each have a file of their
\* own.
C17_TempFileGone ==
    /\ (Answered("transcribe") /\ response.temp_path # 0)
       => ~response.temp_left
    /\ OwnTempFiles

\* C17, amended: requests that interleave at the upload read each have a
\* file of their own; a request that ends takes its own file, and no other,
\* out of the files in flight, whatever its status; and that file is gone
\* unless os.remove failed, in which case the request is answered as it
\* would have been and the file is left behind for good.
C17_TempFileGoneUnlessRemoveFails ==
    /\ []OwnTempFiles
    /\ [][ \A r \in Req : (req[r].pc = "read" /\ req'[r].pc # "read") =>
             /\ tempfiles' = tempfiles \ {req[r].temp_path}
             /\ response'.ep = "transcribe"
             /\ response'.temp_path = req[r].temp_path
             /\ response'.status \in {200, 500}
             /\ leaked' = IF response'.temp_left THEN leaked + 1 ELSE leaked
         ]_vars
    /\ [](leaked = 0 => ~response.temp_left)

\* C17's case: a /transcribe request ended with a 500 and its os.remove
\* failed, while another /transcribe request is at its upload read with a
\* file of its own.
C17_Witness ==
    /\ Answered("transcribe")
    /\ response.temp_path # 0
    /\ response.status = 500
    /\ response.temp_left
    /\ \E r \in Req : req[r].pc = "read" /\ req[r].temp_path \in tempfiles

\* C18: a translated /translate request used the requested target code when
\* the tokenizer knows it; otherwise the request was for uzb_Latn or
\* uzb_Cyrl and it used the first of that code's alternatives, in their
\* order, that the tokenizer knows; the response's target_lang is the code
\* used and the forced start token is that code's id.  A request none of
\* whose codes the tokenizer knows is not translated.
C18_TargetResolution ==
    ( /\ Answered("translate")
      /\ response.target_lang # ""
      /\ translation_tokenizer # None
      /\ translation_tokenizer.has_map )
    => LET vocab == translation_tokenizer.vocab
           asked == response.target_lang
           alts  == uzbek_alternatives(asked)
       IN  /\ response.model_calls = 1 =>
                /\ response.used_target \in vocab
                /\ response.forced_bos = LangId(response.used_target)
                /\ asked \in vocab => response.used_target = asked
                /\ asked \notin vocab =>
                     /\ asked \in {"uzb_Latn", "uzb_Cyrl"}
                     /\ \E i \in DOMAIN alts :
                           /\ alts[i] = response.used_target
                           /\ \A j \in 1..(i - 1) : alts[j] \notin vocab
           /\ (\A i \in DOMAIN alts : alts[i] \notin vocab)
              => (response.status = 400 /\ response.model_calls = 0)

\* C18's case: uzb_Latn was asked of a tokenizer that knows uzb and uz but
\* not uzb_Latn, and the request was translated to uzb.
C18_Witness ==
    /\ Answered("translate")
    /\ response.status = 200
    /\ response.target_lang = "uzb_Latn"
    /\ response.used_target = "uzb"
    /\ "uz" \in translation_tokenizer.vocab

====
